---- MODULE Spec2Model ----
(***************************************************************************)
(* Model of tabular_sampling/scripts/clean_data.py: clean() and            *)
(* subsample_df().                                                         *)
(*                                                                         *)
(* A metrics table is a sequence of rows in DataFrame row order.  A row is *)
(* keyed by (run, Epoch), where run stands for the (taskid, model_idx)     *)
(* pair, and carries one value of a metric/diagnostic column ("metric")    *)
(* and one value of a non-fidelity model_config column ("model_config").   *)
(* A value is "ok" or "NaN".  The fidelity parameters of a run are kept in *)
(* the function fidelity.  The subsample fraction is an exact rational     *)
(* <<numerator, denominator>>.                                             *)
(***************************************************************************)
EXTENDS FiniteSets, Integers, Sequences, TLC

VARIABLES raw, fidelity, epochs, keep_incomplete_runs, keep_nan_configs,
          subsample, pc, data, prev, applied, idx, clean_data, written

vars == <<raw, fidelity, epochs, keep_incomplete_runs, keep_nan_configs,
          subsample, pc, data, prev, applied, idx, clean_data, written>>

args == <<raw, fidelity, epochs, keep_incomplete_runs, keep_nan_configs, subsample>>

\* ---------------------------------------------------------------- bounds

NumRuns == 3

MaxEpoch == 2

Runs == 1..NumRuns

Epochs == 0..MaxEpoch

FidelityGroups == {"A", "B"}

NaN == "NaN"

\* Fractions offered to --subsample: valid ones, 1.0, and two invalid ones.
Fracs == {<<0, 1>>, <<1, 2>>, <<2, 3>>, <<1, 1>>, <<3, 2>>}

\* ------------------------------------------------------- table helpers

Row(r, e, m, c) == [run |-> r, Epoch |-> e, metric |-> m, model_config |-> c]

Range(s) == {s[i] : i \in 1..Len(s)}

SetMax(S) == CHOOSE x \in S : \A y \in S : y <= x

SetMin(S) == CHOOSE x \in S : \A y \in S : x <= y

\* The runs that have at least one row in df.
RunsOf(df) == {df[i].run : i \in 1..Len(df)}

\* The (run, Epoch) index of df, as a sequence of pairs.
Index(df) == [i \in 1..Len(df) |-> <<df[i].run, df[i].Epoch>>]

\* df.loc[mask]: the rows whose mask entry is TRUE, in order.
Loc(df, mask) ==
    LET F[i \in 0..Len(df)] ==
            IF i = 0 THEN <<>>
            ELSE IF mask[i] THEN Append(F[i - 1], df[i]) ELSE F[i - 1]
    IN F[Len(df)]

\* -------------------------------------------------- stage 1: truncation

\* Variant: a strict comparison, Epoch < epochs.
Truncate_lt(df, e) == Loc(df, [i \in 1..Len(df) |-> df[i].Epoch < e])

\* data.loc[data.index.get_level_values("Epoch") <= epochs]
Truncate(df, e) == Loc(df, [i \in 1..Len(df) |-> df[i].Epoch <= e])

\* ------------------------------------------------ stage 2: completeness

\* metric_df_ops.get_nepochs: per run, the maximum Epoch value present.
GetNepochs(df) ==
    [r \in RunsOf(df) |-> SetMax({df[i].Epoch : i \in {j \in 1..Len(df) : df[j].run = r}})]

\* nepochs.reindex(index=data.index, method="ffill"): every row carries its
\* run's observed length.
Reindex(nepochs, df) == [i \in 1..Len(df) |-> nepochs[df[i].run]]

\* valid = nepochs.nepochs <= epochs
Valid(df, e) == LET nepochs == Reindex(GetNepochs(df), df)
                IN [i \in 1..Len(df) |-> nepochs[i] <= e]

\* The body of "if keep_incomplete_runs:".
FilterIncomplete(df, e) == Loc(df, Valid(df, e))

\* ---------------------------------------------------- stage 3: NaN rows

\* data.isna().any(axis=1), for one row: a NaN in any column.
IsNa(row) == row.metric = NaN \/ row.model_config = NaN

\* nan_ind = data.loc[nan_check].index: the full (run, Epoch) labels.
NanInd(df) == {<<df[i].run, df[i].Epoch>> : i \in {j \in 1..Len(df) : IsNa(df[j])}}

\* Variant: the labels keep their Epoch level.
DropLevelEpoch_keep(nan_ind) == nan_ind

\* nan_ind.droplevel("Epoch").drop_duplicates(): labels of whole runs.
DropLevelEpoch(nan_ind) == {<<k[1]>> : k \in nan_ind}

\* Whether an index label (full, or a run prefix) selects the row.
Matches(label, row) ==
    /\ label[1] = row.run
    /\ Len(label) = 2 => label[2] = row.Epoch

\* data.drop(labels)
Drop(df, labels) ==
    Loc(df, [i \in 1..Len(df) |-> \A l \in labels : ~Matches(l, df[i])])

\* Variant: whole runs are dropped whatever the flag.
NanFilter_runs(df, keep_nan) == Drop(df, DropLevelEpoch(NanInd(df)))

\* Lines 93-101: drop the NaN rows, or the runs that have one.
NanFilter(df, keep_nan) ==
    LET nan_ind == NanInd(df)
    IN Drop(df, IF keep_nan THEN DropLevelEpoch(nan_ind) ELSE nan_ind)

\* -------------------------------------------------- stage 4: subsampling

\* The runs of df in the order of their first row.
EncounterOrder(df) ==
    LET F[i \in 0..Len(df)] ==
            IF i = 0 THEN <<>>
            ELSE LET seen == F[i - 1]
                 IN IF df[i].run \in Range(seen) THEN seen
                    ELSE Append(seen, df[i].run)
    IN F[Len(df)]

\* metric_df_ops.get_configs(df)[fidelity_params]: one representative per
\* run, in encounter order, projected onto the fidelity parameters.
GetConfigs(df, fid) ==
    LET order == EncounterOrder(df)
    IN [i \in 1..Len(order) |-> [run |-> order[i], fidelity |-> fid[order[i]]]]

\* fids.groupby(fidelity_params).count()
Counts(fids) ==
    [g \in {fids[i].fidelity : i \in 1..Len(fids)} |->
        Cardinality({i \in 1..Len(fids) : fids[i].fidelity = g})]

\* Variant: math.ceil in place of math.floor.
MinSampleSize_ceil(counts, frac) ==
    (SetMin({counts[g] : g \in DOMAIN counts}) * frac[1] + frac[2] - 1) \div frac[2]

\* math.floor(counts.min() * subsample_frac)
MinSampleSize(counts, frac) ==
    (SetMin({counts[g] : g \in DOMAIN counts}) * frac[1]) \div frac[2]

\* Variant: g.tail(n), the last n rows of every group.
GroupHead_last(fids, n) ==
    Loc(fids, [i \in 1..Len(fids) |->
        Cardinality({j \in (i + 1)..Len(fids) : fids[j].fidelity = fids[i].fidelity}) < n])

\* g.head(n), n >= 0: the first n rows of every group, in the original order.
GroupHead(fids, n) ==
    Loc(fids, [i \in 1..Len(fids) |->
        Cardinality({j \in 1..(i - 1) : fids[j].fidelity = fids[i].fidelity}) < n])

\* idx1.join(idx2, idx2.index.names).notna().all(axis=1): a row is selected
\* when its run is in the index of configs.
Sel(df, configs) ==
    [i \in 1..Len(df) |-> df[i].run \in {configs[j].run : j \in 1..Len(configs)}]

\* counts.min() of an empty frame is NaN and math.floor(NaN) raises.
SubsampleRaises(df) == Len(df) = 0

SubsampleDf(df, fid, frac) ==
    LET fids == GetConfigs(df, fid)
        min_sample_size == MinSampleSize(Counts(fids), frac)
        configs == GroupHead(fids, min_sample_size)
    IN Loc(df, Sel(df, configs))

\* subsample < 1.0
LessThanOne(frac) == frac[1] < frac[2]

\* ------------------------------------------------ stage 5: anonymization

\* The elements of a finite set of integers in ascending order.
RECURSIVE Sorted(_)
Sorted(S) == IF S = {} THEN <<>> ELSE <<SetMin(S)>> \o Sorted(S \ {SetMin(S)})

AllNaN == [metric |-> NaN, model_config |-> NaN]

\* data.unstack("Epoch"): one row per run (sorted), one column block per
\* Epoch (sorted); a (run, Epoch) pair without a row is filled with NaN.
Unstack(df) ==
    LET index == Sorted(RunsOf(df))
        columns == Sorted({df[i].Epoch : i \in 1..Len(df)})
        Cell(r, e) ==
            LET hit == {i \in 1..Len(df) : df[i].run = r /\ df[i].Epoch = e}
            IN IF hit = {} THEN AllNaN
               ELSE LET row == df[CHOOSE i \in hit : TRUE]
                    IN [metric |-> row.metric, model_config |-> row.model_config]
    IN [index |-> index, columns |-> columns,
        values |-> [i \in 1..Len(index) |-> [e \in Range(columns) |-> Cell(index[i], e)]]]

\* The long rows of a wide frame after reset_index(drop=True): block i gets
\* ModelIndex i - 1.
LongRows(wide) ==
    LET k == Len(wide.columns)
    IN [p \in 1..(Len(wide.index) * k) |->
          LET i == ((p - 1) \div k) + 1
              e == wide.columns[((p - 1) % k) + 1]
          IN [ModelIndex |-> i - 1, Epoch |-> e,
              metric |-> wide.values[i][e].metric,
              model_config |-> wide.values[i][e].model_config]]

\* Variant: stack(dropna=False).
Stack_keepna(wide) == LongRows(wide)

\* data.stack("Epoch") with its default dropna=True: rows whose values are
\* all NaN are dropped.
Stack(wide) ==
    LET long == LongRows(wide)
    IN Loc(long, [p \in 1..Len(long) |->
                    ~(long[p].metric = NaN /\ long[p].model_config = NaN)])

\* Lines 116-125: groups, features and labels of one long row.
BuildDataset(df) ==
    [i \in 1..Len(df) |->
        [groups |-> [ModelIndex |-> df[i].ModelIndex],
         features |-> [model_config |-> df[i].model_config, Epoch |-> df[i].Epoch],
         labels |-> [metric |-> df[i].metric]]]

\* --------------------------------------------------------------- inputs

Columns == {"metric", "model_config"}

\* The (run, Epoch) keys of a table over the runs of order and the epochs
\* of eps, run by run or epoch by epoch.
Keys(order, eps, layout) ==
    LET n == Len(order)
        k == Len(eps)
    IN [p \in 1..(n * k) |->
          IF layout = "run"
          THEN <<order[((p - 1) \div k) + 1], eps[((p - 1) % k) + 1]>>
          ELSE <<order[((p - 1) % n) + 1], eps[((p - 1) \div n) + 1]>>]

\* The table with a row at every key whose epoch is in its run's shape, and
\* a NaN at every <<run, epoch, column>> of nans.
Table(keys, shape, nans) ==
    Loc([p \in 1..Len(keys) |->
            Row(keys[p][1], keys[p][2],
                IF <<keys[p][1], keys[p][2], "metric">> \in nans THEN NaN ELSE "ok",
                IF <<keys[p][1], keys[p][2], "model_config">> \in nans THEN NaN ELSE "ok")],
        [p \in 1..Len(keys) |-> keys[p][2] \in shape[keys[p][1]]])

Input(t, f, e, ki, kn, s) ==
    [raw |-> t, fidelity |-> f, epochs |-> e, keep_incomplete_runs |-> ki,
     keep_nan_configs |-> kn, subsample |-> s]

IdOrder == [i \in 1..NumRuns |-> i]

EpochSeq == [i \in 1..(MaxEpoch + 1) |-> i - 1]

FullShape == [r \in Runs |-> Epochs]

OneGroup == [r \in Runs |-> "A"]

Perms == {p \in [1..NumRuns -> Runs] : \A i, j \in 1..NumRuns : p[i] = p[j] => i = j}

\* Epoch sets that miss at most one epoch.
Shapes == {Epochs} \cup {Epochs \ {e} : e \in Epochs}

Cells == Runs \X Epochs \X Columns

\* Runs of every length against every horizon, also horizons <= 0 and a
\* horizon no run reaches.
InputsTruncation ==
    {Input(Table(Keys(IdOrder, EpochSeq, "run"), [r \in Runs |-> 0..(len[r] - 1)], {}),
           OneGroup, e, ki, FALSE, <<1, 2>>) :
        len \in [Runs -> 1..(MaxEpoch + 1)], e \in (-1)..(MaxEpoch + 1),
        ki \in BOOLEAN}

\* Runs with irregular epoch sets.
InputsRagged ==
    {Input(Table(Keys(IdOrder, EpochSeq, layout), shape, {}),
           OneGroup, MaxEpoch, FALSE, FALSE, <<1, 1>>) :
        shape \in [Runs -> Shapes], layout \in {"run", "epoch"}}

\* Complete runs with at most two NaN values, in metric or model_config
\* columns.
InputsNaN ==
    {Input(Table(Keys(IdOrder, EpochSeq, "run"), FullShape, nans),
           OneGroup, MaxEpoch, FALSE, kn, <<1, 1>>) :
        nans \in {{}} \cup {{a, b} : a \in Cells, b \in Cells}, kn \in BOOLEAN}

\* Complete runs in every row order and fidelity grouping, at every fraction.
InputsSubsample ==
    {Input(Table(Keys(order, EpochSeq, layout), FullShape, {}),
           fid, MaxEpoch, FALSE, FALSE, s) :
        order \in Perms, layout \in {"run", "epoch"},
        fid \in [Runs -> FidelityGroups], s \in Fracs}

Profiles == {"full", "short", "hole", "nan_metric", "nan_config"}

Alternating == [r \in Runs |-> IF r % 2 = 1 THEN "A" ELSE "B"]

\* Every mix of complete runs, one-epoch runs, runs with a hole at epoch 1,
\* runs with a metric NaN at epoch 1 and runs with a model_config NaN at
\* epoch 0, through all five stages.
InputsMixed ==
    {Input(Table(Keys(IdOrder, EpochSeq, "run"),
                 [r \in Runs |-> CASE prof[r] = "short" -> {0}
                                   [] prof[r] = "hole" -> Epochs \ {1}
                                   [] OTHER -> Epochs],
                 {<<r, 1, "metric">> : r \in {q \in Runs : prof[q] = "nan_metric"}}
                 \cup {<<r, 0, "model_config">> : r \in {q \in Runs : prof[q] = "nan_config"}}),
           fid, e, TRUE, kn, s) :
        prof \in [Runs -> Profiles], fid \in {OneGroup, Alternating},
        e \in {MaxEpoch - 1, MaxEpoch}, kn \in BOOLEAN, s \in {<<1, 2>>, <<1, 1>>}}

ScenarioRuns == <<1, 2, 3, 4>>

ScenarioEpochs == <<0, 1, 2>>

\* The end-to-end scenario: 4 runs x 3 epochs, 2 fidelity groups of 2 runs,
\* one run with a NaN at epoch 1; every flag and two fractions.
InputsScenario ==
    {Input(Table(Keys(ScenarioRuns, ScenarioEpochs, "run"),
                 [r \in Range(ScenarioRuns) |-> Range(ScenarioEpochs)],
                 {<<nanrun, 1, col>>}),
           fid, 2, ki, kn, s) :
        nanrun \in Range(ScenarioRuns), col \in Columns,
        fid \in {f \in [Range(ScenarioRuns) -> FidelityGroups] :
                    Cardinality({r \in Range(ScenarioRuns) : f[r] = "A"}) = 2},
        ki \in BOOLEAN, kn \in BOOLEAN, s \in {<<1, 2>>, <<1, 1>>}}

Inputs == InputsTruncation \cup InputsRagged \cup InputsNaN
          \cup InputsSubsample \cup InputsMixed \cup InputsScenario

\* ------------------------------------------------------------ behaviour

\* The process after parse_cli(): the arguments are fixed, the raw metrics
\* file is on disk, nothing is loaded or written.
Init ==
    /\ \E inp \in Inputs :
        /\ raw = inp.raw
        /\ fidelity = inp.fidelity
        /\ epochs = inp.epochs
        /\ keep_incomplete_runs = inp.keep_incomplete_runs
        /\ keep_nan_configs = inp.keep_nan_configs
        /\ subsample = inp.subsample
    /\ pc = "load"
    /\ data = <<>>
    /\ prev = <<>>
    /\ applied = {}
    /\ idx = <<>>
    /\ clean_data = <<>>
    /\ written = FALSE

\* data = pd.read_pickle(data_pth)
Load ==
    /\ pc = "load"
    /\ data' = raw
    /\ prev' = <<>>
    /\ pc' = "truncate"
    /\ UNCHANGED <<args, applied, idx, clean_data, written>>

\* "Throwing away excess epochs' data."
TruncateStage ==
    /\ pc = "truncate"
    /\ prev' = data
    /\ data' = Truncate(data, epochs)
    /\ pc' = "complete"
    /\ UNCHANGED <<args, applied, idx, clean_data, written>>

\* if keep_incomplete_runs: ... data = data.loc[valid]
CompletenessStage ==
    /\ pc = "complete"
    /\ prev' = data
    /\ IF keep_incomplete_runs
       THEN /\ data' = FilterIncomplete(data, epochs)
            /\ applied' = applied \cup {"completeness"}
       ELSE UNCHANGED <<data, applied>>
    /\ pc' = "nan"
    /\ UNCHANGED <<args, idx, clean_data, written>>

\* "Handling NaN values."
NanStage ==
    /\ pc = "nan"
    /\ prev' = data
    /\ data' = NanFilter(data, keep_nan_configs)
    /\ applied' = IF keep_nan_configs THEN applied \cup {"droplevel"} ELSE applied
    /\ pc' = "subsample"
    /\ UNCHANGED <<args, idx, clean_data, written>>

\* if subsample < 1.0: data = subsample_df(df=data, subsample_frac=subsample)
SubsampleStage ==
    /\ pc = "subsample"
    /\ prev' = data
    /\ IF LessThanOne(subsample)
       THEN IF SubsampleRaises(data)
            THEN /\ pc' = "failed"
                 /\ UNCHANGED <<data, applied>>
            ELSE /\ data' = SubsampleDf(data, fidelity, subsample)
                 /\ applied' = applied \cup {"subsample"}
                 /\ pc' = "anonymize"
       ELSE /\ pc' = "anonymize"
            /\ UNCHANGED <<data, applied>>
    /\ UNCHANGED <<args, idx, clean_data, written>>

\* "Anonymizing indices."
AnonymizeStage ==
    /\ pc = "anonymize"
    /\ prev' = data
    /\ idx' = Unstack(data).index
    /\ data' = Stack(Unstack(data))
    /\ pc' = "save"
    /\ UNCHANGED <<args, applied, clean_data, written>>

\* "Building dataset." and clean_data.to_pickle(outfile)
SaveStage ==
    /\ pc = "save"
    /\ clean_data' = BuildDataset(data)
    /\ written' = TRUE
    /\ pc' = "done"
    /\ UNCHANGED <<args, data, prev, applied, idx>>

Next ==
    \/ Load
    \/ TruncateStage
    \/ CompletenessStage
    \/ NanStage
    \/ SubsampleStage
    \/ AnonymizeStage
    \/ SaveStage

Spec == Init /\ [][Next]_vars

\* ------------------------------------------------- vocabulary of claims

Rows(df) == Range(df)

RowsOfRun(df, r) == {i \in 1..Len(df) : df[i].run = r}

EpochsOfRun(df, r) == {df[i].Epoch : i \in RowsOfRun(df, r)}

HasNaN(row) == \E col \in Columns : row[col] = NaN

\* The position of a row in df; the rows of df are distinct (unique keys).
Pos(df, row) == CHOOSE i \in 1..Len(df) : df[i] = row

\* sub holds rows of df only, each once, in the order they have in df.
SubTable(sub, df) ==
    /\ \A i \in 1..Len(sub) : sub[i] \in Rows(df)
    /\ \A i, j \in 1..Len(sub) : i < j => Pos(df, sub[i]) < Pos(df, sub[j])

RunsInGroup(df, g) == {r \in RunsOf(df) : fidelity[r] = g}

GroupsOf(df) == {fidelity[r] : r \in RunsOf(df)}

MinGroupCount(df) == SetMin({Cardinality(RunsInGroup(df, g)) : g \in GroupsOf(df)})

\* floor(min_group_count * frac) over the table that entered the subsampler.
Target == (MinGroupCount(prev) * subsample[1]) \div subsample[2]

ValidFrac == 0 < subsample[1] /\ subsample[1] <= subsample[2]

FirstPos(df, r) == SetMin(RowsOfRun(df, r))

\* How many runs of r's fidelity group come before r in row order.
RankInGroup(df, r) ==
    Cardinality({q \in RunsOf(df) :
        fidelity[q] = fidelity[r] /\ FirstPos(df, q) < FirstPos(df, r)})

ModelIndexes(df) == {df[i].ModelIndex : i \in 1..Len(df)}

\* --------------------------------------------------------------- claims

\* C9: after the truncation stage the table holds exactly the rows of its
\* input whose Epoch <= epochs, unchanged and in order; and for horizons
\* e1 <= e2 the rows of Truncate(T, e1) are rows of Truncate(T, e2).
C9_Truncation ==
    pc = "complete" =>
        /\ \A i \in 1..Len(prev) : prev[i] \in Rows(data) <=> prev[i].Epoch <= epochs
        /\ SubTable(data, prev)
        /\ \A e1, e2 \in (-1)..(MaxEpoch + 1) :
              e1 <= e2 => Rows(Truncate(prev, e1)) \subseteq Rows(Truncate(prev, e2))

\* A truncation that removes rows beyond the horizon and keeps the rows at it.
C9_Witness ==
    /\ pc = "complete"
    /\ \E i \in 1..Len(prev) : prev[i].Epoch > epochs
    /\ \E i \in 1..Len(data) : data[i].Epoch = epochs
    /\ Len(data) < Len(prev)

\* C1: the completeness filter is applied if and only if keep_incomplete_runs
\* is False, and when keep_incomplete_runs is True the table entering the NaN
\* filter is exactly the truncated table.
C1_FilterIffNotKeep ==
    pc = "nan" =>
        /\ ("completeness" \in applied) <=> ~keep_incomplete_runs
        /\ keep_incomplete_runs => data = prev

\* C2: whenever the completeness filter is applied, every row it retains
\* belongs to a run whose maximum Epoch before the filter is >= epochs.
C2_CompletenessSound ==
    (pc = "nan" /\ "completeness" \in applied) =>
        \A i \in 1..Len(data) : SetMax(EpochsOfRun(prev, data[i].run)) >= epochs

\* C3: under the strict policy (keep_nan_configs False) the NaN filter
\* deletes exactly the rows with a NaN in a metric or diagnostic column; a
\* row whose only NaN is in a model_config column stays.
C3_StrictDeletesMetricNaNRows ==
    (pc = "subsample" /\ ~keep_nan_configs) =>
        \A i \in 1..Len(prev) : prev[i] \in Rows(data) <=> prev[i].metric # NaN

C10_FirstRunsWhole ==
    (pc = "anonymize" /\ "subsample" \in applied) =>
        /\ \A i \in 1..Len(prev) :
              prev[i] \in Rows(data) <=> RankInGroup(prev, prev[i].run) < Target
        /\ SubTable(data, prev)
        /\ \A r \in RunsOf(prev) :
              \/ RowsOfRun(data, r) = {}
              \/ EpochsOfRun(data, r) = EpochsOfRun(prev, r)

\* A later-numbered run met first is kept with all its rows while an
\* earlier-numbered run of the same group is dropped.
C10_Witness ==
    /\ pc = "anonymize"
    /\ "subsample" \in applied
    /\ \E r, q \in RunsOf(prev) :
          /\ fidelity[r] = fidelity[q]
          /\ q < r
          /\ FirstPos(prev, r) < FirstPos(prev, q)
          /\ Cardinality(RowsOfRun(data, r)) = Cardinality(RowsOfRun(prev, r))
          /\ Cardinality(RowsOfRun(data, r)) >= 2
          /\ RowsOfRun(data, q) = {}

\* C6: anonymization maps the n runs entering it one-to-one onto ModelIndex
\* 0..n-1 and keeps the (run, epoch) pairs and their values exactly: no row
\* is gained or lost, also when the runs have different epoch sets.
C6_Bijective ==
    pc = "save" =>
        LET n == Cardinality(RunsOf(prev))
            Key(row) == <<idx[row.ModelIndex + 1], row.Epoch>>
        IN /\ Len(idx) = n
           /\ Range(idx) = RunsOf(prev)
           /\ ModelIndexes(data) = 0..(n - 1)
           /\ Len(data) = Len(prev)
           /\ {Key(data[i]) : i \in 1..Len(data)} = Range(Index(prev))
           /\ \A i \in 1..Len(data) : \E j \in 1..Len(prev) :
                 /\ Key(data[i]) = <<prev[j].run, prev[j].Epoch>>
                 /\ data[i].metric = prev[j].metric
                 /\ data[i].model_config = prev[j].model_config

\* Runs with different epoch sets went through the reshape.
C6_Witness ==
    /\ pc = "save"
    /\ Len(idx) >= 2
    /\ \E r, q \in RunsOf(prev) :
          /\ EpochsOfRun(prev, r) \ EpochsOfRun(prev, q) # {}
          /\ EpochsOfRun(prev, q) \ EpochsOfRun(prev, r) # {}
    /\ Len(data) = Len(prev)

\* C7: with epochs <= 0, or subsample <= 0 or > 1, the call fails before any
\* transformation stage runs and nothing is written.
C7_ValidationAborts ==
    (epochs <= 0 \/ ~ValidFrac) => (pc \in {"load", "truncate"} /\ ~written)

\* The end-to-end scenario: 4 runs x epochs 0..2, 2 fidelity groups of 2 runs,
\* a single NaN row, at epoch 1, and clean(epochs=2, keep_incomplete_runs=
\* False, keep_nan_configs=False, subsample=1.0).
IsScenario ==
    /\ Cardinality(RunsOf(raw)) = 4
    /\ Len(raw) = 12
    /\ \A r \in RunsOf(raw) : EpochsOfRun(raw, r) = {0, 1, 2}
    /\ \A g \in FidelityGroups : Cardinality(RunsInGroup(raw, g)) = 2
    /\ Cardinality({i \in 1..Len(raw) : HasNaN(raw[i])}) = 1
    /\ \A i \in 1..Len(raw) : HasNaN(raw[i]) => raw[i].Epoch = 1
    /\ epochs = 2
    /\ ~keep_incomplete_runs
    /\ ~keep_nan_configs
    /\ subsample = <<1, 1>>

OutputModelIndexes == {clean_data[i].groups.ModelIndex : i \in 1..Len(clean_data)}

====
